---- MODULE Spec2Model ----
(***************************************************************************)
(* Horizontal slide transition of presenterm                               *)
(* (src/src/transitions/slide_horizontal.rs).                              *)
(*                                                                         *)
(* Two terminal grids are moved into SlideHorizontalAnimation::new, which  *)
(* checks their geometry and background and concatenates them row by row.  *)
(* build_frame and total_frames then read the combined grid through &self. *)
(* A Rust panic (failed assert!, slice or index out of range) is modelled  *)
(* as the outcome Panic(..) and the control state "panicked".              *)
(***************************************************************************)
EXTENDS Integers, Sequences, FiniteSets, TLC

VARIABLES left, right, pc, self, fresh, last

vars == <<left, right, pc, self, fresh, last>>

(* ---------------------------- bounds ----------------------------------- *)

\* Largest number of cells (rows x columns) of one input grid.
MaxCells == 2
\* Largest viewport width (WindowSize::columns) handed to new.
MaxViewport == 4
\* Largest frame index handed to build_frame.
MaxFrame == 4

(* ------------------------- data model ---------------------------------- *)

\* Style: the size multiplier and one display attribute.
Plain == [size |-> 1, bold |-> FALSE]
Bold == [size |-> 1, bold |-> TRUE]
Huge == [size |-> 3, bold |-> FALSE]

\* StyledChar { character, style }: the cells the grids are drawn from.
\* "W" stands for a wide glyph (display width 2), here in an enlarged style.
Cells ==
    { [character |-> "a", style |-> Plain],
      [character |-> "b", style |-> Bold],
      [character |-> "W", style |-> Huge] }

Colors == {"none", "blue"}
Images == {"img"}

\* Rectangular cell matrices with at most MaxCells cells.
Shapes == { s \in (0..MaxCells) \X (0..MaxCells) : s[1] * s[2] <= MaxCells }

RowSets == UNION { [1..s[1] -> [1..s[2] -> Cells]] : s \in Shapes }

\* TerminalGrid { rows, background_color, images }
Grids ==
    { [rows |-> rs, background_color |-> bg, images |-> im] :
        rs \in RowSets, bg \in Colors, im \in SUBSET Images }

Directions == {"Next", "Previous"}

\* A value that was moved out of (or dropped while unwinding).
Moved == [moved |-> TRUE]
NoTransition == [none |-> TRUE]
NoCall == [op |-> "none"]
Panic(msg) == [panic |-> msg]
IsPanic(v) == "panic" \in DOMAIN v

(* ------------------------- helpers -------------------------------------- *)

SaturatingSub(a, b) == IF a > b THEN a - b ELSE 0
Min(a, b) == IF a < b THEN a ELSE b
Take(s, n) == SubSeq(s, 1, Min(n, Len(s)))

\* Intrinsic display width of a character.
CharWidth(c) == IF c = "W" THEN 2 ELSE 1

RECURSIVE SumWidths(_)
SumWidths(content) ==
    IF content = <<>> THEN 0
    ELSE CharWidth(Head(content)) + SumWidths(Tail(content))

\* Text::width(): display width of a run's content, before the size multiplier.
TextWidth(text) == SumWidths(text.content)

\* Length of the longest prefix of row whose cells carry the given style.
RECURSIVE StylePrefix(_, _)
StylePrefix(row, style) ==
    IF row = <<>> \/ Head(row).style # style THEN 0
    ELSE 1 + StylePrefix(Tail(row), style)

\* TerminalRowIterator: merges contiguous cells of identical style into runs.
RECURSIVE RowRuns(_)
RowRuns(row) ==
    IF row = <<>> THEN <<>>
    ELSE LET style == Head(row).style
             n == StylePrefix(row, style)
         IN  << [content |-> [i \in 1..n |-> row[i].character], style |-> style] >>
               \o RowRuns(SubSeq(row, n + 1, Len(row)))

Ok(v) == [ok |-> v]

(* ------------------- SlideHorizontalAnimation::new ---------------------- *)

\* CombineRows with the two halves of every row exchanged.
CombineRowsSwapped(l, r) ==
    [i \in 1..Min(Len(l), Len(r)) |-> r[i] \o l[i]]

\* The loop of new: each left row extended by the right row at the same
\* position (zip stops at the shorter of the two row lists).
CombineRows(l, r) ==
    [i \in 1..Min(Len(l), Len(r)) |-> l[i] \o r[i]]

\* new without its background assertion.
newWithoutBackgroundCheck(l, r, dimensions) ==
    IF Len(l.rows) # Len(r.rows) THEN Panic("different row count")
    ELSE IF Len(l.rows) = 0 THEN Panic("index out of bounds")
    ELSE IF Len(l.rows[1]) # Len(r.rows[1]) THEN Panic("different column count")
    ELSE [grid |-> [rows |-> CombineRows(l.rows, r.rows),
                    background_color |-> l.background_color,
                    images |-> {}],
          dimensions |-> dimensions]

\* new(left, right, dimensions): the three assertions, in order, then the
\* combined grid.  left.rows[0] is an index panic on a grid without rows.
new(l, r, dimensions) ==
    IF Len(l.rows) # Len(r.rows) THEN Panic("different row count")
    ELSE IF Len(l.rows) = 0 THEN Panic("index out of bounds")
    ELSE IF Len(l.rows[1]) # Len(r.rows[1]) THEN Panic("different column count")
    ELSE IF l.background_color # r.background_color
         THEN Panic("different background color")
    ELSE [grid |-> [rows |-> CombineRows(l.rows, r.rows),
                    background_color |-> l.background_color,
                    images |-> {}],
          dimensions |-> dimensions]

(* ------------------- AnimateTransition impl ----------------------------- *)

\* total_frames(): grid.rows[0].len().saturating_sub(columns); rows[0] is an
\* index panic on a grid without rows.
total_frames(t) ==
    IF Len(t.grid.rows) = 0 THEN Panic("index out of bounds")
    ELSE Ok(SaturatingSub(Len(t.grid.rows[1]), t.dimensions.columns))

\* WindowStart with the direction ignored.
WindowStartForward(total, frame, direction) == Min(frame, total)

\* The clamped frame and the window start column it selects.
WindowStart(total, frame, direction) ==
    LET clamped == Min(frame, total)
    IN  IF direction = "Next" THEN clamped ELSE SaturatingSub(total, clamped)

\* &row[index..index + columns] panics unless the range lies within the row.
WindowInRange(row, index, columns) == index + columns <= Len(row)

\* RowWindow with the start column ignored.
RowWindowFromZero(row, index, columns) == SubSeq(row, 1, columns)

\* The slice &row[index..index + columns] (0-based, end exclusive).
RowWindow(row, index, columns) == SubSeq(row, index + 1, index + columns)

\* The loop over the runs of one row window: width is the accumulated
\* (untruncated) width, line the runs pushed so far.
RECURSIVE Accumulate(_, _, _, _)
Accumulate(texts, max_width, width, line) ==
    IF texts = <<>> THEN line
    ELSE LET text == Head(texts)
             text_width == TextWidth(text) * text.style.size
             capped_width == SaturatingSub(max_width, width) \div text.style.size
         IN  IF width + text_width > max_width
             THEN IF capped_width = 0
                  THEN Accumulate(Tail(texts), max_width, width, line)
                  ELSE Accumulate(Tail(texts), max_width, width + text_width,
                                  Append(line, [text EXCEPT !.content = Take(@, capped_width)]))
             ELSE Accumulate(Tail(texts), max_width, width + text_width, Append(line, text))

\* build_frame(frame, direction): a LinesFrame, or the panic of the row slice.
build_frame(t, frame, direction) ==
    LET total == total_frames(t)
        rows == t.grid.rows
        columns == t.dimensions.columns
    IN  IF IsPanic(total) THEN total
        ELSE LET index == WindowStart(total.ok, frame, direction)
             IN  IF \E i \in 1..Len(rows) : ~WindowInRange(rows[i], index, columns)
                 THEN Panic("range end index out of range for slice")
                 ELSE [lines |-> [i \in 1..Len(rows) |->
                                    Accumulate(RowRuns(RowWindow(rows[i], index, columns)),
                                               columns, 0, <<>>)],
                       background_color |-> t.grid.background_color]

(* ---------------------------- actions ----------------------------------- *)

Init ==
    /\ left \in Grids
    /\ right \in Grids
    /\ pc = "start"
    /\ self = NoTransition
    /\ fresh = NoTransition
    /\ last = NoCall

\* SlideHorizontalAnimation::new(left, right, WindowSize { columns, .. }):
\* both grids are moved into the call; fresh remembers the value returned.
\* Of WindowSize only columns is ever read, so dimensions carries columns alone.
New(columns) ==
    /\ pc = "start"
    /\ \E t \in {new(left, right, [columns |-> columns])} :
           /\ pc' = IF IsPanic(t) THEN "panicked" ELSE "ready"
           /\ self' = IF IsPanic(t) THEN NoTransition ELSE t
           /\ fresh' = self'
           /\ last' = [op |-> "new", result |-> IF IsPanic(t) THEN t ELSE Ok(TRUE)]
    /\ left' = Moved
    /\ right' = Moved

\* BuildFrame that drains the columns left of the window out of the grid.
BuildFrameDraining(frame, direction) ==
    /\ pc = "ready"
    /\ \E result \in {build_frame(self, frame, direction)} :
           /\ last' = [op |-> "build_frame", frame |-> frame,
                       direction |-> direction, result |-> result]
           /\ pc' = IF IsPanic(result) THEN "panicked" ELSE "ready"
    /\ self' = [self EXCEPT !.grid.rows =
                   [i \in 1..Len(@) |->
                      SubSeq(@[i],
                             WindowStart(total_frames(self).ok, frame, direction) + 1,
                             Len(@[i]))]]
    /\ UNCHANGED <<left, right, fresh>>

\* transition.build_frame(frame, direction) through &self.
BuildFrame(frame, direction) ==
    /\ pc = "ready"
    /\ \E result \in {build_frame(self, frame, direction)} :
           /\ last' = [op |-> "build_frame", frame |-> frame,
                       direction |-> direction, result |-> result]
           /\ pc' = IF IsPanic(result) THEN "panicked" ELSE "ready"
    /\ UNCHANGED <<left, right, self, fresh>>

\* transition.total_frames() through &self.
TotalFrames ==
    /\ pc = "ready"
    /\ \E result \in {total_frames(self)} :
           /\ last' = [op |-> "total_frames", result |-> result]
           /\ pc' = IF IsPanic(result) THEN "panicked" ELSE "ready"
    /\ UNCHANGED <<left, right, self, fresh>>

Next ==
    \/ \E columns \in 0..MaxViewport : New(columns)
    \/ \E frame \in 0..MaxFrame, direction \in Directions : BuildFrame(frame, direction)
    \/ TotalFrames

Spec == Init /\ [][Next]_vars

(* ------------------------- properties ----------------------------------- *)

\* The call recorded in last is a build_frame call on the transition self.
FrameCall == pc # "start" /\ self # NoTransition /\ last.op = "build_frame"

\* total_frames() of the transition, which has at least one row once built.
Total == total_frames(self).ok
Columns == self.dimensions.columns
GridWidth == Len(self.grid.rows[1])

\* Concatenated content of a line.
RECURSIVE Content(_)
Content(line) ==
    IF line = <<>> THEN <<>> ELSE Head(line).content \o Content(Tail(line))

\* Visual width of a line: character widths times the run's size, summed.
RECURSIVE LineWidth(_)
LineWidth(line) ==
    IF line = <<>> THEN 0
    ELSE TextWidth(Head(line)) * Head(line).style.size + LineWidth(Tail(line))

Characters(row) == [i \in 1..Len(row) |-> row[i].character]

Narrow(cell) == cell.style.size = 1 /\ CharWidth(cell.character) = 1

\* C1 (mirror law): a build_frame(f, Previous) call with 0 <= f <= total_frames()
\* has the same outcome (the same lines, runs and background) as
\* build_frame(total_frames() - f, Next) on the same transition.
C1_MirrorLaw ==
    (FrameCall /\ last.direction = "Previous" /\ last.frame <= Total)
        => last.result = build_frame(self, Total - last.frame, "Next")

\* A Previous call strictly inside the animation that returned a frame which
\* differs from the Next frame at the same tick.
C1_Witness ==
    /\ FrameCall
    /\ last.direction = "Previous"
    /\ 0 < last.frame /\ last.frame < Total
    /\ ~IsPanic(last.result)
    /\ last.result # build_frame(self, last.frame, "Next")

\* C2 (clamping): a build_frame(f, d) call with f > total_frames() does not fail
\* and returns the frame of build_frame(total_frames(), d).
C2_Clamping ==
    (FrameCall /\ last.frame > Total)
        => /\ ~IsPanic(last.result)
           /\ last.result = build_frame(self, Total, last.direction)

\* C3 (window content): with a viewport no wider than the combined grid and only
\* cells of size 1 and display width 1, build_frame(f, Next) for f <= total_frames()
\* returns one line per grid row, in order, whose concatenated content is columns
\* [f, f + viewport.columns) of that row.
C3_WindowContent ==
    ( /\ FrameCall
      /\ last.direction = "Next"
      /\ last.frame <= Total
      /\ Columns <= GridWidth
      /\ \A i \in 1..Len(self.grid.rows) :
            \A j \in 1..Len(self.grid.rows[i]) : Narrow(self.grid.rows[i][j]) )
        => /\ ~IsPanic(last.result)
           /\ Len(last.result.lines) = Len(self.grid.rows)
           /\ \A i \in 1..Len(self.grid.rows) :
                Content(last.result.lines[i])
                    = SubSeq(Characters(self.grid.rows[i]),
                             last.frame + 1, last.frame + Columns)

\* A Next call at a tick past 0 on a two-row grid of narrow cells whose frame
\* differs from the frame at tick 0.
C3_Witness ==
    /\ FrameCall
    /\ last.direction = "Next"
    /\ 0 < last.frame /\ last.frame <= Total
    /\ Columns >= 1
    /\ Len(self.grid.rows) = 2
    /\ \A i \in 1..2 : \A j \in 1..Len(self.grid.rows[i]) : Narrow(self.grid.rows[i][j])
    /\ ~IsPanic(last.result)
    /\ last.result # build_frame(self, 0, "Next")

\* The two grids disagree in row count, in the column count of some row, or in
\* background.
Mismatched(l, r) ==
    \/ Len(l.rows) # Len(r.rows)
    \/ \E i \in 1..Min(Len(l.rows), Len(r.rows)) : Len(l.rows[i]) # Len(r.rows[i])
    \/ l.background_color # r.background_color

\* C4 (grid composition): when new succeeds, the combined grid has the rows of
\* left, each followed by the row of right at the same position, the common
\* background, and no images, whatever images left and right carried.
C4_GridComposition ==
    [][ (pc = "start" /\ pc' = "ready")
          => /\ Len(self'.grid.rows) = Len(left.rows)
             /\ \A i \in 1..Len(left.rows) :
                  /\ self'.grid.rows[i] = left.rows[i] \o right.rows[i]
                  /\ Len(self'.grid.rows[i]) = Len(left.rows[1]) + Len(right.rows[1])
             /\ self'.grid.background_color = left.background_color
             /\ self'.grid.background_color = right.background_color
             /\ self'.grid.images = {} ]_vars

\* new has just returned a transition over two rows whose halves differ.
C4_Witness ==
    /\ pc = "ready"
    /\ last.op = "new"
    /\ Len(self.grid.rows) = 2
    /\ GridWidth = 2
    /\ \A i \in 1..2 : self.grid.rows[i][1] # self.grid.rows[i][2]
    /\ self.grid.background_color = "blue"

\* C5 (rejected construction): new aborts, and yields no transition, whenever the
\* two grids disagree in row count, per-row column count or background.
C5_MismatchRejected ==
    [][ (pc = "start" /\ Mismatched(left, right))
          => (pc' = "panicked" /\ self' = NoTransition /\ IsPanic(last'.result)) ]_vars

\* new aborted on the background assertion, the last of the three.
C5_Witness ==
    /\ pc = "panicked"
    /\ last.op = "new"
    /\ last.result = Panic("different background color")

\* C6 (viewport wider than the grid): total_frames() is 0 and every build_frame
\* call returns, without failing, a frame showing every grid row in full.
C6_WideViewport ==
    (FrameCall /\ Columns > GridWidth)
        => /\ total_frames(self) = Ok(0)
           /\ ~IsPanic(last.result)
           /\ Len(last.result.lines) = Len(self.grid.rows)
           /\ \A i \in 1..Len(self.grid.rows) :
                Content(last.result.lines[i]) = Characters(self.grid.rows[i])

\* Compatible grids without rows, or whose rows have no columns.
Degenerate(l, r) ==
    /\ ~Mismatched(l, r)
    /\ \/ Len(l.rows) = 0
       \/ \A i \in 1..Len(l.rows) : Len(l.rows[i]) = 0

\* C7 (degenerate geometry): for grids with zero rows, or rows of zero columns,
\* new, total_frames and build_frame all succeed, and every frame is empty (no
\* lines, or lines without runs).
C7_DegenerateGeometry ==
    [][ /\ (pc = "start" /\ Degenerate(left, right)) => pc' = "ready"
        /\ (pc = "ready" /\ (Len(self.grid.rows) = 0 \/ GridWidth = 0))
              => /\ pc' = "ready"
                 /\ last'.op = "build_frame"
                      => \A i \in 1..Len(last'.result.lines) :
                            last'.result.lines[i] = <<>> ]_vars

\* C8 (call-history independence): no call changes the transition, and every
\* build_frame or total_frames call, whatever calls came before it, has the
\* outcome the same call has on the transition as new returned it.
C8_HistoryIndependence ==
    (pc # "start" /\ self # NoTransition)
        => /\ self = fresh
           /\ last.op = "build_frame"
                => last.result = build_frame(fresh, last.frame, last.direction)
           /\ last.op = "total_frames" => last.result = total_frames(fresh)

\* A build_frame call that slid the window away from column 0 and returned a
\* frame with content.
C8_Witness ==
    /\ FrameCall
    /\ pc = "ready"
    /\ WindowStart(Total, last.frame, last.direction) > 0
    /\ \E i \in 1..Len(last.result.lines) : last.result.lines[i] # <<>>

\* The line the overflow rule of C9 describes: runs are appended while they fit;
\* the first run that does not fit is cut to floor(remaining / size) characters,
\* or dropped when that is 0, and nothing after it is added.
RECURSIVE ClaimedLine(_, _, _)
ClaimedLine(texts, remaining, line) ==
    IF texts = <<>> THEN line
    ELSE LET text == Head(texts)
             text_width == TextWidth(text) * text.style.size
             capped_width == remaining \div text.style.size
         IN  IF text_width <= remaining
             THEN ClaimedLine(Tail(texts), remaining - text_width, Append(line, text))
             ELSE IF capped_width = 0 THEN line
             ELSE Append(line, [text EXCEPT !.content = Take(@, capped_width)])

\* C9 (overflow handling): every line of a frame is its row window's runs up to
\* the first run that overflows, that run cut to floor(remaining / size)
\* characters or dropped, and no run after it.
C9_OverflowStops ==
    (FrameCall /\ ~IsPanic(last.result))
        => \A i \in 1..Len(self.grid.rows) :
              last.result.lines[i]
                  = ClaimedLine(
                        RowRuns(RowWindow(self.grid.rows[i],
                                          WindowStart(Total, last.frame, last.direction),
                                          Columns)),
                        Columns, <<>>)

\* C10 (width bound): every line of every frame has visual width at most
\* viewport.columns.
C10_WidthBound ==
    (FrameCall /\ ~IsPanic(last.result))
        => \A i \in 1..Len(last.result.lines) :
              LineWidth(last.result.lines[i]) <= Columns

====
